---- MODULE Spec2Model ----
(***************************************************************************)
(* Model of scripts/generate-seed-migration.py: the pipeline that turns    *)
(* the FJC judges CSV and the CourtListener magistrate JSON into one       *)
(* guarded SQL seed block (courts, judges, attorneys).                     *)
(*                                                                         *)
(* Python strings are TLA+ strings; str.replace, `in`, strip and lower are *)
(* computed character by character.  Python's None is the value None.      *)
(***************************************************************************)
EXTENDS Integers, Sequences, FiniteSets, TLC

VARIABLES
    pc,             \* position in main() / in the function under call
    row,            \* <<row>> (<<entry>>) the running parser holds in its loop variable, else <<>>
    n_read,         \* rows (entries) the running parser has consumed
    csv_judges,     \* result of parse_csv_judges
    mag_judges,     \* result of parse_json_magistrates
    unique_judges,  \* main(): list after deduplication
    courts_map,     \* main(): court_id -> court name
    attorneys,      \* result of generate_attorneys
    sql,            \* result of generate_sql: the statements of the DO block
    db,             \* the target database the emitted block is applied to
    arg,            \* argument of a function called on its own
    ret             \* its return value

vars == <<pc, row, n_read, csv_judges, mag_judges, unique_judges, courts_map,
          attorneys, sql, db, arg, ret>>

-----------------------------------------------------------------------------
(* Bounds of the model *)

MaxCsvRows == 2

MaxJsonEntries == 2

MaxCourts == 22

MaxDbJudges == 11

MaxPositions == 2

-----------------------------------------------------------------------------
(* Python values and string primitives *)

None == "<None>"

Min(S) == CHOOSE x \in S : \A y \in S : x <= y

\* `v or ""`
OrEmpty(v) == IF v = None THEN "" ELSE v

\* str(v) inside an f-string
Str(v) == IF v = None THEN "None" ELSE v

\* 1-based index of the first occurrence of t in s, 0 when there is none
IndexOf(s, t) ==
    LET hits == {i \in 1..(Len(s) - Len(t) + 1) : SubSeq(s, i, i + Len(t) - 1) = t}
    IN  IF hits = {} THEN 0 ELSE Min(hits)

\* `t in s`
Contains(s, t) == IndexOf(s, t) # 0

RECURSIVE Replace(_, _, _)
\* s.replace(old, new) for a non-empty old: non-overlapping, left to right
Replace(s, old, new) ==
    LET i == IndexOf(s, old)
    IN  IF i = 0 THEN s
        ELSE SubSeq(s, 1, i - 1) \o new
             \o Replace(SubSeq(s, i + Len(old), Len(s)), old, new)

IsSpace(c) == c = " "

RECURSIVE LStrip(_)
LStrip(s) ==
    IF Len(s) > 0 /\ IsSpace(SubSeq(s, 1, 1)) THEN LStrip(SubSeq(s, 2, Len(s))) ELSE s

RECURSIVE RStrip(_)
RStrip(s) ==
    IF Len(s) > 0 /\ IsSpace(SubSeq(s, Len(s), Len(s)))
    THEN RStrip(SubSeq(s, 1, Len(s) - 1)) ELSE s

\* s.strip()
Strip(s) == RStrip(LStrip(s))

UpperChars == "ABCDEFGHIJKLMNOPQRSTUVWXYZ"

LowerChars == "abcdefghijklmnopqrstuvwxyz"

LowerChar(c) ==
    LET i == IndexOf(UpperChars, c)
    IN  IF i = 0 THEN c ELSE SubSeq(LowerChars, i, i)

RECURSIVE Lower(_)
\* s.lower()
Lower(s) ==
    IF Len(s) = 0 THEN ""
    ELSE LowerChar(SubSeq(s, 1, 1)) \o Lower(SubSeq(s, 2, Len(s)))

RECURSIVE Join(_, _)
\* sep.join(parts)
Join(parts, sep) ==
    IF Len(parts) = 0 THEN ""
    ELSE IF Len(parts) = 1 THEN parts[1]
    ELSE parts[1] \o sep \o Join(Tail(parts), sep)

-----------------------------------------------------------------------------
(* Court name -> court_id *)

STATE_ABBREVS == <<
    <<"Alabama", "al">>, <<"Alaska", "ak">>, <<"Arizona", "az">>, <<"Arkansas", "ar">>,
    <<"California", "ca">>, <<"Colorado", "co">>, <<"Connecticut", "ct">>, <<"Delaware", "de">>,
    <<"Florida", "fl">>, <<"Georgia", "ga">>, <<"Hawaii", "hi">>, <<"Idaho", "id">>,
    <<"Illinois", "il">>, <<"Indiana", "in">>, <<"Iowa", "ia">>, <<"Kansas", "ks">>,
    <<"Kentucky", "ky">>, <<"Louisiana", "la">>, <<"Maine", "me">>, <<"Maryland", "md">>,
    <<"Massachusetts", "ma">>, <<"Michigan", "mi">>, <<"Minnesota", "mn">>,
    <<"Mississippi", "ms">>, <<"Missouri", "mo">>, <<"Montana", "mt">>, <<"Nebraska", "ne">>,
    <<"Nevada", "nv">>, <<"New Hampshire", "nh">>, <<"New Jersey", "nj">>,
    <<"New Mexico", "nm">>, <<"New York", "ny">>, <<"North Carolina", "nc">>,
    <<"North Dakota", "nd">>, <<"Ohio", "oh">>, <<"Oklahoma", "ok">>, <<"Oregon", "or">>,
    <<"Pennsylvania", "pa">>, <<"Rhode Island", "ri">>, <<"South Carolina", "sc">>,
    <<"South Dakota", "sd">>, <<"Tennessee", "tn">>, <<"Texas", "tx">>, <<"Utah", "ut">>,
    <<"Vermont", "vt">>, <<"Virginia", "va">>, <<"Washington", "wa">>,
    <<"West Virginia", "wv">>, <<"Wisconsin", "wi">>, <<"Wyoming", "wy">>,
    <<"Columbia", "dc">>, <<"Puerto Rico", "pr">>, <<"Guam", "gu">>,
    <<"Virgin Islands", "vi">>, <<"Northern Mariana Islands", "nmi">> >>

DIRECTION_ABBREVS == <<
    <<"Northern", "n">>, <<"Southern", "s">>, <<"Eastern", "e">>, <<"Western", "w">>,
    <<"Central", "c">>, <<"Middle", "m">> >>

\* the four leading replace() calls of court_name_to_id
StripPhrases(name) ==
    Replace(Replace(Replace(Replace(name,
        "U.S. District Court for the ", ""),
        "U.S. District Court - ", ""),
        "U.S. Bankruptcy Court - ", ""),
        "District of ", "")

RECURSIVE ScanDirectionsFrom(_, _)
\* the `for d_name, d_abbrev in DIRECTION_ABBREVS.items()` loop from item i on:
\* <<direction, cleaned>> when it ends (at the break, or after the last item)
ScanDirectionsFrom(cleaned, i) ==
    IF i > Len(DIRECTION_ABBREVS) THEN <<"", cleaned>>
    ELSE LET d_name == DIRECTION_ABBREVS[i][1]
             d_abbrev == DIRECTION_ABBREVS[i][2]
         IN  IF Contains(cleaned, d_name)
             THEN <<d_abbrev,
                    Replace(Replace(cleaned, d_name \o " District of ", ""),
                            d_name \o " ", "")>>
             ELSE ScanDirectionsFrom(cleaned, i + 1)

RECURSIVE ScanDirectionsNoBreak(_, _, _)
\* the direction loop without its break: every matching item overwrites
ScanDirectionsNoBreak(cleaned, i, direction) ==
    IF i > Len(DIRECTION_ABBREVS) THEN <<direction, cleaned>>
    ELSE LET d_name == DIRECTION_ABBREVS[i][1]
             d_abbrev == DIRECTION_ABBREVS[i][2]
         IN  IF Contains(cleaned, d_name)
             THEN ScanDirectionsNoBreak(
                      Replace(Replace(cleaned, d_name \o " District of ", ""),
                              d_name \o " ", ""), i + 1, d_abbrev)
             ELSE ScanDirectionsNoBreak(cleaned, i + 1, direction)

ScanDirectionsLastWins(cleaned) == ScanDirectionsNoBreak(cleaned, 1, "")

ScanDirections(cleaned) == ScanDirectionsFrom(cleaned, 1)

RECURSIVE ScanStatesFrom(_, _)
\* the `for s_name, s_abbrev in STATE_ABBREVS.items()` loop from item i on
ScanStatesFrom(cleaned, i) ==
    IF i > Len(STATE_ABBREVS) THEN ""
    ELSE IF Contains(cleaned, STATE_ABBREVS[i][1]) THEN STATE_ABBREVS[i][2]
    ELSE ScanStatesFrom(cleaned, i + 1)

ScanStates(cleaned) == ScanStatesFrom(cleaned, 1)

court_name_to_id(name) ==
    IF name = None \/ name = "" THEN None
    ELSE LET scanned == ScanDirections(StripPhrases(name))
             direction == scanned[1]
             state_code == ScanStates(scanned[2])
         IN  IF state_code # "" THEN state_code \o direction \o "d" ELSE None

-----------------------------------------------------------------------------
(* Title and status mapping *)

map_title(raw_title) ==
    IF raw_title = None \/ raw_title = "" THEN "Judge"
    ELSE LET t == Strip(raw_title)
         IN  IF Contains(t, "Chief") THEN "Chief Judge"
             ELSE IF Contains(t, "Magistrate") THEN "Magistrate Judge"
             ELSE IF Contains(t, "Senior") THEN "Senior Judge"
             ELSE "Judge"

\* map_status with the senior-date test first
map_status_senior_first(r) ==
    LET senior_date == Strip(OrEmpty(r.senior_date))
        termination == Strip(OrEmpty(r.termination))
    IN  IF senior_date # "" THEN "Senior"
        ELSE IF termination = "Retirement" THEN "Retired"
        ELSE "Active"

\* map_status with the termination reason compared as read, untrimmed
map_status_untrimmed(r) ==
    LET senior_date == Strip(OrEmpty(r.senior_date))
        termination == OrEmpty(r.termination)
    IN  IF termination = "Retirement" THEN "Retired"
        ELSE IF senior_date # "" THEN "Senior"
        ELSE "Active"

map_status(r) ==
    LET senior_date == Strip(OrEmpty(r.senior_date))
        termination == Strip(OrEmpty(r.termination))
    IN  IF termination = "Retirement" THEN "Retired"
        ELSE IF senior_date # "" THEN "Senior"
        ELSE "Active"

-----------------------------------------------------------------------------
(* parse_date: "%Y-%m-%d", "%m/%d/%Y", "%Y" tried in that order *)

Digits == "0123456789"

IsDigit(c) == IndexOf(Digits, c) # 0

IsDigits(s) == Len(s) > 0 /\ \A i \in 1..Len(s) : IsDigit(SubSeq(s, i, i))

RECURSIVE ToNat(_)
ToNat(s) ==
    IF Len(s) = 0 THEN 0
    ELSE 10 * ToNat(SubSeq(s, 1, Len(s) - 1)) + (IndexOf(Digits, SubSeq(s, Len(s), Len(s))) - 1)

\* two-digit, zero-padded rendering (strftime %m, %d)
Pad2(n) == SubSeq(Digits, (n \div 10) + 1, (n \div 10) + 1) \o SubSeq(Digits, (n % 10) + 1, (n % 10) + 1)

RECURSIVE Split(_, _)
\* the fields of s between occurrences of the one-character separator sep
Split(s, sep) ==
    LET i == IndexOf(s, sep)
    IN  IF i = 0 THEN <<s>>
        ELSE <<SubSeq(s, 1, i - 1)>> \o Split(SubSeq(s, i + 1, Len(s)), sep)

\* strptime %Y: exactly four digits, and datetime needs year >= 1
IsYear(s) == Len(s) = 4 /\ IsDigits(s) /\ ToNat(s) >= 1

\* strptime %m: 1[0-2]|0[1-9]|[1-9]
IsMonth(s) == Len(s) \in {1, 2} /\ IsDigits(s) /\ ToNat(s) \in 1..12

\* strptime %d: 3[01]|[12]\d|0[1-9]|[1-9]| [1-9]
IsDay(s) ==
    \/ Len(s) \in {1, 2} /\ IsDigits(s) /\ ToNat(s) \in 1..31
    \/ Len(s) = 2 /\ SubSeq(s, 1, 1) = " " /\ IsDigits(SubSeq(s, 2, 2)) /\ ToNat(SubSeq(s, 2, 2)) >= 1

IsLeap(y) == (y % 4 = 0 /\ y % 100 # 0) \/ y % 400 = 0

DaysIn(y, m) ==
    IF m = 2 THEN (IF IsLeap(y) THEN 29 ELSE 28)
    ELSE IF m \in {4, 6, 9, 11} THEN 30 ELSE 31

\* the rendered date, or None when (y, m, d) do not form a date.  The year is
\* rendered as read: strftime("%Y") agrees for every year from 1000 on.
Iso(y, m, d) ==
    IF IsYear(y) /\ IsMonth(m) /\ IsDay(d)
       /\ ToNat(Strip(d)) <= DaysIn(ToNat(y), ToNat(m))
    THEN y \o "-" \o Pad2(ToNat(m)) \o "-" \o Pad2(ToNat(Strip(d))) \o "T00:00:00Z"
    ELSE None

parse_date(date_str) ==
    IF date_str = None \/ Strip(date_str) = "" THEN None
    ELSE LET d == Strip(date_str)
             dash == Split(d, "-")
             slash == Split(d, "/")
             ymd == IF Len(dash) = 3 THEN Iso(dash[1], dash[2], dash[3]) ELSE None
             mdy == IF Len(slash) = 3 THEN Iso(slash[3], slash[1], slash[2]) ELSE None
         IN  IF ymd # None THEN ymd
             ELSE IF mdy # None THEN mdy
             ELSE IF IsYear(d) THEN d \o "-01-01T00:00:00Z"
             ELSE None

sql_str(value) == IF value = None THEN "NULL" ELSE "'" \o Replace(Str(value), "'", "''") \o "'"

sql_date(value) == IF value = None THEN "NULL" ELSE "'" \o value \o "'"

\* sha256 is not computed: the identifier is rendered as an injective image of
\* the seed string, which is what the 128 hash bits kept by the slicing stand for.
deterministic_uuid(seed_string) == "uuid:" \o seed_string

-----------------------------------------------------------------------------
(* parse_csv_judges: one iteration of `for row in reader` *)

\* A row is the DictReader dict, one field per column read:
\*   death_year "Death Year", court_type "Court Type (1)", court_name "Court Name (1)",
\*   first/middle/last/suffix the name columns, appt_title "Appointment Title (1)",
\*   senior_date "Senior Status Date (1)", termination "Termination (1)",
\*   commission "Commission Date (1)", chief_begin / chief_end the chief-judge
\*   service columns, jid "jid".  A column the file lacks reads as "".

\* the court-type and court-name tests without the death-year test
csv_row_admitted_any_death(r) ==
    /\ Strip(OrEmpty(r.court_type)) = "U.S. District Court"
    /\ court_name_to_id(Strip(OrEmpty(r.court_name))) # None

\* the three `continue` tests: the row is turned into a record
csv_row_admitted(r) ==
    /\ Strip(OrEmpty(r.death_year)) = ""
    /\ Strip(OrEmpty(r.court_type)) = "U.S. District Court"
    /\ court_name_to_id(Strip(OrEmpty(r.court_name))) # None

csv_name(r) ==
    LET first == Strip(OrEmpty(r.first))
        middle == Strip(OrEmpty(r.middle))
        last == Strip(OrEmpty(r.last))
        suffix == Strip(OrEmpty(r.suffix))
    IN  Join(<<first>>
             \o (IF middle # "" /\ middle # " " THEN <<middle>> ELSE <<>>)
             \o <<last>>
             \o (IF suffix # "" /\ suffix # " " THEN <<suffix>> ELSE <<>>), " ")

\* the title without the chief-judge service override
csv_title_no_override(r) == map_title(r.appt_title)

csv_title(r) ==
    LET chief_begin == Strip(OrEmpty(r.chief_begin))
        chief_end == Strip(OrEmpty(r.chief_end))
    IN  IF chief_begin # "" /\ chief_end = "" THEN "Chief Judge"
        ELSE map_title(r.appt_title)

csv_record(r) ==
    LET court_name == Strip(OrEmpty(r.court_name))
    IN  [court_id |-> court_name_to_id(court_name),
         name |-> csv_name(r),
         title |-> csv_title(r),
         district |-> Replace(court_name, "U.S. District Court for the ", ""),
         appointed_date |-> parse_date(r.commission),
         status |-> map_status(r),
         senior_status_date |-> parse_date(r.senior_date),
         seed_key |-> "csv-" \o Str(r.jid),
         court_full_name |-> court_name]

\* what the iteration appends to judges
csv_row_judges(r) == IF csv_row_admitted(r) THEN <<csv_record(r)>> ELSE <<>>

-----------------------------------------------------------------------------
(* parse_json_magistrates: one iteration of `for entry in data` *)

\* An entry has death_date, name_first, name_middle, name_last, name_suffix,
\* judge_id and positions, a list of dicts with institution, title, date_start
\* and date_end; a key the dict lacks reads as None.  The dict {} is the
\* position whose four keys all read None.

IsEmptyDict(pos) ==
    pos.institution = None /\ pos.title = None /\ pos.date_start = None /\ pos.date_end = None

pos_open(pos) == Strip(OrEmpty(pos.date_end)) = ""

pos_title(pos) == Strip(OrEmpty(pos.title))

RECURSIVE first_magistrate_from(_, _)
\* first loop over positions: index of `current`, 0 for None
first_magistrate_from(positions, i) ==
    IF i > Len(positions) THEN 0
    ELSE IF pos_open(positions[i]) /\ Contains(pos_title(positions[i]), "Magistrate") THEN i
    ELSE first_magistrate_from(positions, i + 1)

RECURSIVE first_non_bankruptcy_from(_, _)
\* second loop over positions
first_non_bankruptcy_from(positions, i) ==
    IF i > Len(positions) THEN 0
    ELSE IF pos_open(positions[i]) /\ ~Contains(pos_title(positions[i]), "Bankruptcy") THEN i
    ELSE first_non_bankruptcy_from(positions, i + 1)

\* `not current`: None, or a dict that is empty
falsy_position(positions, i) == i = 0 \/ IsEmptyDict(positions[i])

\* the second loop alone: the Magistrate preference is lost
select_current_no_preference(positions) == first_non_bankruptcy_from(positions, 1)

\* index of `current` after both loops
select_current(positions) ==
    LET m == first_magistrate_from(positions, 1)
    IN  IF falsy_position(positions, m) THEN first_non_bankruptcy_from(positions, 1) ELSE m

json_name(e) ==
    LET first == Strip(OrEmpty(e.name_first))
        middle == Strip(OrEmpty(e.name_middle))
        last == Strip(OrEmpty(e.name_last))
        suffix == Strip(OrEmpty(e.name_suffix))
    IN  Join(<<first>>
             \o (IF middle # "" THEN <<middle>> ELSE <<>>)
             \o <<last>>
             \o (IF suffix # "" THEN <<suffix>> ELSE <<>>), " ")

json_record(e, current) ==
    LET institution == Strip(OrEmpty(current.institution))
        district_text == Replace(Replace(institution, "U.S. District Court - ", ""),
                                 "U.S. District Court for the ", "")
    IN  [court_id |-> court_name_to_id(institution),
         name |-> json_name(e),
         title |-> map_title(current.title),
         district |-> district_text,
         appointed_date |-> parse_date(current.date_start),
         status |-> "Active",
         senior_status_date |-> None,
         seed_key |-> "mag-" \o Str(e.judge_id),
         court_full_name |-> "U.S. District Court for the " \o district_text]

\* what the iteration appends to judges
json_entry_judges(e) ==
    IF Strip(OrEmpty(e.death_date)) # "" THEN <<>>
    ELSE LET c == select_current(e.positions)
         IN  IF falsy_position(e.positions, c) THEN <<>>
             ELSE IF court_name_to_id(Strip(OrEmpty(e.positions[c].institution))) = None THEN <<>>
             ELSE <<json_record(e, e.positions[c])>>

-----------------------------------------------------------------------------
(* main(): deduplication and the court registry *)

dedup_key(j) == <<Lower(j.name), j.court_id>>

RECURSIVE dedup_from(_, _, _, _)
\* the `for j in all_judges` loop from index i on, with `seen` and
\* `unique_judges` as they stand
dedup_from(all_judges, i, seen, unique) ==
    IF i > Len(all_judges) THEN unique
    ELSE LET key == dedup_key(all_judges[i])
         IN  IF key \notin seen
             THEN dedup_from(all_judges, i + 1, seen \cup {key}, Append(unique, all_judges[i]))
             ELSE dedup_from(all_judges, i + 1, seen, unique)

RECURSIVE dedup_last_wins(_)
\* a record is kept when no LATER record carries its key
dedup_last_wins(all_judges) ==
    IF Len(all_judges) = 0 THEN <<>>
    ELSE IF \E k \in 2..Len(all_judges) : dedup_key(all_judges[k]) = dedup_key(all_judges[1])
    THEN dedup_last_wins(Tail(all_judges))
    ELSE <<all_judges[1]>> \o dedup_last_wins(Tail(all_judges))

deduplicate(all_judges) == dedup_from(all_judges, 1, {}, <<>>)

RECURSIVE courts_from(_, _, _)
\* the `for j in unique_judges` loop that fills courts_map
courts_from(judges, i, map) ==
    IF i > Len(judges) THEN map
    ELSE IF judges[i].court_id \notin DOMAIN map
    THEN courts_from(judges, i + 1,
             [c \in DOMAIN map \cup {judges[i].court_id} |->
                 IF c \in DOMAIN map THEN map[c] ELSE judges[i].court_full_name])
    ELSE courts_from(judges, i + 1, map)

EmptyMap == [c \in {} |-> ""]

\* the registry is filled from the first judge only
build_courts_map_first_only(judges) ==
    IF judges = <<>> THEN EmptyMap ELSE courts_from(<<judges[1]>>, 1, EmptyMap)

build_courts_map(judges) == courts_from(judges, 1, EmptyMap)

-----------------------------------------------------------------------------
(* generate_attorneys *)

ATTORNEY_DATA == <<
    <<"Sarah", "Mitchell", "Johnson", "Mitchell & Associates">>, <<"Robert", "James", "Chen", "Chen Law Group">>,
    <<"Maria", "Elena", "Garcia", "Garcia & Partners LLP">>, <<"David", "Allen", "Park", "Park Legal Services">>,
    <<"Jennifer", "Lynn", "O'Brien", "O'Brien & Associates">>, <<"Michael", "Thomas", "Williams", None>>,
    <<"Lisa", "Marie", "Rodriguez", "Rodriguez Criminal Defense">>, <<"James", "Patrick", "Murphy", "Murphy Law Firm">>,
    <<"Amanda", "Rose", "Thompson", "Thompson & Associates">>, <<"Christopher", "Lee", "Kim", None>>,
    <<"Rachel", "Ann", "Patel", "Patel Law Group">>, <<"William", "Edward", "Davis", "Davis & Whitmore LLP">>,
    <<"Michelle", "Lee", "Nguyen", "Nguyen Legal Defense">>, <<"Daniel", "Mark", "Anderson", "Anderson & Partners">>,
    <<"Stephanie", "Grace", "Brown", None>>, <<"Kevin", "John", "Wilson", "Wilson Criminal Law">>,
    <<"Laura", "Beth", "Taylor", "Taylor & Associates">>, <<"Marcus", "James", "Jackson", "Jackson Legal Group">>,
    <<"Patricia", "Ann", "White", "White & Associates LLP">>, <<"Brian", "Michael", "Harris", None>>,
    <<"Christina", "Marie", "Martin", "Martin Law Offices">>, <<"Andrew", "Thomas", "Lewis", "Lewis & Walker">>,
    <<"Nicole", "Elizabeth", "Clark", "Clark Criminal Defense">>, <<"Steven", "Robert", "Robinson", None>>,
    <<"Karen", "Sue", "Martinez", "Martinez & Associates">>, <<"Gregory", "Paul", "Hall", "Hall Law Group">>,
    <<"Angela", "Dawn", "Young", "Young & Associates">>, <<"Jason", "Lee", "Allen", "Allen Legal Services">>,
    <<"Catherine", "Anne", "King", "King & Associates">>, <<"Thomas", "William", "Scott", None>>,
    <<"Rebecca", "Jo", "Adams", "Adams Law Firm">>, <<"Eric", "Charles", "Baker", "Baker & Nelson LLP">>,
    <<"Diana", "Lynn", "Gonzalez", "Gonzalez Defense Group">>, <<"Richard", "Joseph", "Nelson", None>>,
    <<"Susan", "Kay", "Carter", "Carter Legal Services">>, <<"Jeffrey", "Dean", "Mitchell", "Mitchell & Stern">>,
    <<"Heather", "Marie", "Perez", None>>, <<"Timothy", "James", "Roberts", "Roberts Law Group">>,
    <<"Sandra", "Lee", "Turner", "Turner & Associates">>, <<"Ryan", "Patrick", "Phillips", "Phillips Criminal Law">>,
    <<"Emily", "Anne", "Campbell", None>>, <<"Douglas", "Wayne", "Parker", "Parker & Associates">>,
    <<"Amy", "Nicole", "Evans", "Evans Law Firm">>, <<"Mark", "Allen", "Edwards", "Edwards & Associates">>,
    <<"Donna", "Sue", "Collins", None>>, <<"Scott", "David", "Stewart", "Stewart Legal Group">>,
    <<"Pamela", "Jean", "Sanchez", "Sanchez Defense">>, <<"Adam", "Michael", "Morris", None>>,
    <<"Christine", "Marie", "Rogers", "Rogers & Associates">>, <<"Joseph", "Francis", "Reed", "Reed Law Offices">> >>

ATTORNEY_STATUSES == <<
    "Active", "Active", "Active", "Active", "Active",
    "Active", "Active", "Active", "Active", "Active",
    "Active", "Active", "Active", "Active", "Active",
    "Active", "Active", "Active", "Active", "Active",
    "Active", "Active", "Active", "Active", "Active",
    "Active", "Active", "Inactive", "Active", "Active",
    "Active", "Active", "Active", "Active", "Active",
    "Active", "Active", "Active", "Active", "Active",
    "Active", "Suspended", "Active", "Active", "Active",
    "Active", "Active", "Active", "Active", "Retired" >>

ATTORNEY_CITIES == <<
    <<"New York", "NY", "10001">>, <<"Los Angeles", "CA", "90012">>,
    <<"Chicago", "IL", "60602">>, <<"Houston", "TX", "77002">>,
    <<"Miami", "FL", "33132">>, <<"Boston", "MA", "02108">>,
    <<"Philadelphia", "PA", "19107">>, <<"Washington", "DC", "20001">>,
    <<"Newark", "NJ", "07102">>, <<"Atlanta", "GA", "30303">> >>

FALLBACK_COURTS == <<"nysd", "cacd", "ilnd">>

\* the characters of the identifiers compared, in code-point order (Python
\* compares strings code point by code point)
CodePoints == " '-.0123456789ABCDEFGHIJKLMNOPQRSTUVWXYZabcdefghijklmnopqrstuvwxyz"

RECURSIVE StrLess(_, _)
\* a < b on Python strings
StrLess(a, b) ==
    IF Len(b) = 0 THEN FALSE
    ELSE IF Len(a) = 0 THEN TRUE
    ELSE IF SubSeq(a, 1, 1) = SubSeq(b, 1, 1)
    THEN StrLess(SubSeq(a, 2, Len(a)), SubSeq(b, 2, Len(b)))
    ELSE IndexOf(CodePoints, SubSeq(a, 1, 1)) < IndexOf(CodePoints, SubSeq(b, 1, 1))

RECURSIVE sorted(_)
\* sorted(S) of a set of strings
sorted(S) ==
    IF S = {} THEN <<>>
    ELSE LET m == CHOOSE x \in S : \A y \in S \ {x} : StrLess(x, y)
         IN  <<m>> \o sorted(S \ {m})

RECURSIVE NatStr(_)
\* str(n) of a natural number
NatStr(n) ==
    IF n < 10 THEN SubSeq(Digits, n + 1, n + 1)
    ELSE NatStr(n \div 10) \o SubSeq(Digits, (n % 10) + 1, (n % 10) + 1)

RECURSIVE ZPad(_, _)
\* f"{n:0wd}" applied to str(n)
ZPad(s, w) == IF Len(s) >= w THEN s ELSE ZPad("0" \o s, w)

\* courts_list without the [:20] cut
courts_list_uncut(court_ids) ==
    IF sorted(court_ids) = <<>> THEN FALLBACK_COURTS ELSE sorted(court_ids)

\* courts_list as the loop reads it
courts_list_of(court_ids) ==
    LET l == IF Cardinality(court_ids) > 20 THEN SubSeq(sorted(court_ids), 1, 20)
             ELSE sorted(court_ids)
    IN  IF l = <<>> THEN FALLBACK_COURTS ELSE l

\* the dict appended for the i-th (0-based) entry of ATTORNEY_DATA
attorney(i, courts_list) ==
    LET first == ATTORNEY_DATA[i + 1][1]
        middle == ATTORNEY_DATA[i + 1][2]
        last == ATTORNEY_DATA[i + 1][3]
        firm == ATTORNEY_DATA[i + 1][4]
        city_info == ATTORNEY_CITIES[(i % Len(ATTORNEY_CITIES)) + 1]
        state == city_info[2]
    IN  [court_id |-> courts_list[(i % Len(courts_list)) + 1],
         bar_number |-> state \o NatStr(10000 + i),
         first_name |-> first,
         middle_name |-> middle,
         last_name |-> last,
         firm_name |-> firm,
         email |-> Lower(first) \o "." \o Lower(last) \o "@example.com",
         phone |-> "(555) " \o ZPad(NatStr(100 + i), 3) \o "-" \o ZPad(NatStr(1000 + i * 7), 4),
         fax |-> IF firm # None
                 THEN "(555) " \o ZPad(NatStr(200 + i), 3) \o "-" \o ZPad(NatStr(2000 + i * 7), 4)
                 ELSE None,
         status |-> ATTORNEY_STATUSES[i + 1],
         street1 |-> NatStr(100 + i * 10) \o " Federal Plaza",
         city |-> city_info[1],
         state |-> state,
         zip_code |-> city_info[3],
         country |-> "US",
         cja_panel_member |-> (i % 5 = 0),
         cases_handled |-> (i * 7 + 3) % 200,
         languages_sql |-> "ARRAY['English'"
                           \o (IF i % 4 = 0 THEN ",'Spanish'" ELSE "")
                           \o (IF i % 7 = 0 THEN ",'Mandarin'" ELSE "")
                           \o "]::text[]",
         seed_key |-> "atty-" \o NatStr(i)]

generate_attorneys(court_ids) ==
    LET courts_list == courts_list_of(court_ids)
    IN  [k \in 1..Len(ATTORNEY_DATA) |-> attorney(k - 1, courts_list)]

-----------------------------------------------------------------------------
(* generate_sql: the statements of the emitted DO block, in order *)

GuardThreshold == 10

\* IF (SELECT COUNT(*) FROM judges) > 10 THEN RAISE NOTICE ...; RETURN; END IF;
GuardStmt == [kind |-> "guard", table |-> "judges", values |-> <<>>, on_conflict |-> None]

CourtInsert(court_id, court_name) ==
    [kind |-> "insert", table |-> "courts",
     values |-> <<sql_str(court_id), sql_str(court_name), "'district'">>,
     on_conflict |-> "(id) DO NOTHING"]

\* current_caseload and max_caseload are functions of md5(seed_key) and of
\* the status; they are not rendered here.
JudgeInsert(j) ==
    [kind |-> "insert", table |-> "judges",
     values |-> <<sql_str(deterministic_uuid(j.seed_key)), sql_str(j.court_id),
                  sql_str(j.name), sql_str(j.title), sql_str(j.district),
                  sql_date(j.appointed_date), sql_str(j.status),
                  sql_date(j.senior_status_date), "NULL", "ARRAY[]::text[]">>,
     on_conflict |-> None]

AttorneyInsert(a) ==
    [kind |-> "insert", table |-> "attorneys",
     values |-> <<sql_str(deterministic_uuid(a.seed_key)), sql_str(a.court_id),
                  sql_str(a.bar_number), sql_str(a.first_name), sql_str(a.middle_name),
                  sql_str(a.last_name),
                  IF a.firm_name # None THEN sql_str(a.firm_name) ELSE "NULL",
                  sql_str(a.email), sql_str(a.phone),
                  IF a.fax # None THEN sql_str(a.fax) ELSE "NULL",
                  sql_str(a.street1), sql_str(a.city), sql_str(a.state),
                  sql_str(a.zip_code), sql_str(a.country), sql_str(a.status),
                  IF a.cja_panel_member THEN "TRUE" ELSE "FALSE",
                  NatStr(a.cases_handled), a.languages_sql>>,
     on_conflict |-> None]

\* the block with its guard emitted after the court inserts
generate_sql_guard_late(judges, attys, map) ==
    LET ids == sorted(DOMAIN map)
    IN  [k \in 1..Len(ids) |-> CourtInsert(ids[k], map[ids[k]])]
        \o <<GuardStmt>>
        \o [k \in 1..Len(judges) |-> JudgeInsert(judges[k])]
        \o [k \in 1..Len(attys) |-> AttorneyInsert(attys[k])]

generate_sql(judges, attys, map) ==
    LET ids == sorted(DOMAIN map)
    IN  <<GuardStmt>>
        \o [k \in 1..Len(ids) |-> CourtInsert(ids[k], map[ids[k]])]
        \o [k \in 1..Len(judges) |-> JudgeInsert(judges[k])]
        \o [k \in 1..Len(attys) |-> AttorneyInsert(attys[k])]

-----------------------------------------------------------------------------
(* The emitted block applied to a target database.  A target is the ids in   *)
(* courts and the row counts of judges and attorneys.                        *)

RECURSIVE run_from(_, _, _)
\* the statements of the block from the i-th on, run against d
run_from(block, i, d) ==
    IF i > Len(block) THEN d
    ELSE LET st == block[i]
         IN  IF st.kind = "guard"
             THEN (IF d.judges > GuardThreshold THEN d ELSE run_from(block, i + 1, d))
             ELSE IF st.table = "courts"
             THEN run_from(block, i + 1, [d EXCEPT !.courts = @ \cup {st.values[1]}])
             ELSE IF st.table = "judges"
             THEN run_from(block, i + 1, [d EXCEPT !.judges = @ + 1])
             ELSE run_from(block, i + 1, [d EXCEPT !.attorneys = @ + 1])

run_block(block, d) == run_from(block, 1, d)

-----------------------------------------------------------------------------
(* Inputs *)

DistrictCourt == "U.S. District Court"

CsvCourtNames ==
    {"U.S. District Court for the Northern District of California",
     "U.S. District Court for the District of Vermont",
     "U.S. District Court for the Canal Zone"}

BaseRow ==
    [death_year |-> "", court_type |-> DistrictCourt,
     court_name |-> "U.S. District Court for the Northern District of California",
     first |-> "Ann", middle |-> "", last |-> "Smith", suffix |-> "",
     appt_title |-> "Judge", senior_date |-> "", termination |-> "",
     commission |-> "05/01/1999", chief_begin |-> "", chief_end |-> "", jid |-> "101"]

\* rows of the tabular source: admission, status, identity, title and name cases
CsvRows ==
    {[BaseRow EXCEPT !.death_year = d, !.court_type = t, !.court_name = c] :
        d \in {"", "2004"}, t \in {DistrictCourt, "U.S. Court of Appeals"}, c \in CsvCourtNames}
    \cup {[BaseRow EXCEPT !.death_year = " "]}
    \cup {[BaseRow EXCEPT !.death_year = d, !.senior_date = s, !.termination = t] :
        d \in {"", "2004"}, s \in {"", "2010-01-01"}, t \in {"", "Retirement", "Resignation"}}
    \cup {[BaseRow EXCEPT !.termination = " Retirement "]}
    \cup {[BaseRow EXCEPT !.last = n[1], !.jid = n[2]] :
        n \in {<<"SMITH", "102">>, <<"Jones", "101">>, <<"Jones", "">>, <<"Smith", "">>}}
    \cup {[BaseRow EXCEPT !.appt_title = t[1], !.chief_begin = t[2], !.chief_end = t[3]] :
        t \in {<<"Judge", "2015", "">>, <<"Judge", "2015", "2020">>, <<"Chief Judge", "", "">>,
               <<"Senior Judge", "", "">>, <<"Magistrate Judge", "", "">>, <<"", "", "">>}}
    \cup {[BaseRow EXCEPT !.appt_title = t[1], !.chief_begin = t[2], !.chief_end = t[3]] :
        t \in {<<"Senior Judge", "2015", "">>, <<"Magistrate Judge", "2015", " ">>,
               <<"Senior Judge", " ", "">>, <<"Chief Magistrate Judge", "", "">>,
               <<"Senior Magistrate Judge", "2015", "2020">>, <<"Senior Chief Judge", "", "">>,
               <<" Senior Judge ", "", "">>, <<None, "", "">>, <<None, "2015", "">>}}
    \cup {[BaseRow EXCEPT !.middle = m[1], !.suffix = m[2]] :
        m \in {<<"Q.", "Jr.">>, <<" ", " ">>}}

Pos(institution, title, date_start, date_end) ==
    [institution |-> institution, title |-> title, date_start |-> date_start, date_end |-> date_end]

Positions ==
    {Pos("U.S. District Court - Northern District of California", "Magistrate Judge", "2012-03-04", None),
     Pos("U.S. District Court - Eastern District of New York", "Magistrate Judge", "2001-01-02", "2011-12-31"),
     Pos("U.S. Bankruptcy Court - Eastern District of New York", "Bankruptcy Judge", "2005", ""),
     Pos("U.S. District Court for the District of Vermont", "Judge", "2016-07-08", " "),
     Pos("U.S. Court of Federal Claims", "Magistrate Judge", "2018-09-10", None),
     Pos(None, None, None, None)}

RECURSIVE SeqsUpTo(_, _)
\* the sequences over S of length at most n
SeqsUpTo(S, n) ==
    IF n = 0 THEN {<<>>}
    ELSE LET shorter == SeqsUpTo(S, n - 1)
         IN  shorter \cup {Append(q, x) : q \in shorter, x \in S}

BaseEntry ==
    [death_date |-> None, name_first |-> "Ann", name_middle |-> None, name_last |-> "Smith",
     name_suffix |-> None, judge_id |-> "501", positions |-> <<>>]

OnePosition ==
    <<Pos("U.S. District Court - Northern District of California", "Magistrate Judge", "2012-03-04", None)>>

\* entries of the hierarchical source: position lists, identity and death cases
JsonEntries ==
    {[BaseEntry EXCEPT !.positions = p] : p \in SeqsUpTo(Positions, MaxPositions)}
    \cup {[BaseEntry EXCEPT !.positions = OnePosition, !.name_last = "Lee", !.judge_id = i] :
        i \in {"501", None}}
    \cup {[BaseEntry EXCEPT !.death_date = "1990-01-01", !.positions = p] :
        p \in SeqsUpTo(Positions, 1)}

\* the rows and entries of the files a whole run of main() reads
CsvFileRows ==
    {[BaseRow EXCEPT !.death_year = d[1], !.court_name = d[2], !.jid = ""] :
        d \in {<<"", "U.S. District Court for the District of Vermont">>,
               <<"2004", "U.S. District Court for the District of Vermont">>,
               <<"", "U.S. District Court for the Canal Zone">>}}
    \cup {[BaseRow EXCEPT !.last = n[1], !.jid = n[2], !.termination = n[3]] :
        n \in {<<"Smith", "101", "">>, <<"SMITH", "102", "Retirement">>,
               <<"Jones", "101", "">>, <<"Jones", "", "">>}}

JsonFileEntries ==
    {[BaseEntry EXCEPT !.positions = p] :
        p \in {OnePosition,
               <<Pos("U.S. District Court - Eastern District of New York", "Magistrate Judge", "2001-01-02", None)>>,
               <<Pos("U.S. Court of Federal Claims", "Magistrate Judge", "2018-09-10", None)>>}}
    \cup {[BaseEntry EXCEPT !.positions = OnePosition, !.name_last = "Lee", !.judge_id = None]}
    \cup {[BaseEntry EXCEPT !.death_date = "1990-01-01", !.positions = OnePosition]}

\* csv_row_judges and json_entry_judges tabulated over the inputs
CsvJudgesOf == [r \in CsvRows \cup CsvFileRows |-> csv_row_judges(r)]

JsonJudgesOf == [e \in JsonEntries \cup JsonFileEntries |-> json_entry_judges(e)]

\* targets the written block is applied to
Targets ==
    {[courts |-> {}, judges |-> 0, attorneys |-> 0],
     [courts |-> {"'cand'"}, judges |-> GuardThreshold, attorneys |-> 3],
     [courts |-> {"'cand'"}, judges |-> MaxDbJudges, attorneys |-> 50]}

NoTarget == [courts |-> {}, judges |-> 0, attorneys |-> 0]

-----------------------------------------------------------------------------
(* main() *)

Start(at) ==
    /\ pc = at
    /\ row = <<>>
    /\ n_read = 0
    /\ csv_judges = <<>>
    /\ mag_judges = <<>>
    /\ unique_judges = <<>>
    /\ courts_map = EmptyMap
    /\ attorneys = <<>>
    /\ sql = <<>>
    /\ db = NoTarget
    /\ ret = None

Init == Start("parse_csv") /\ arg = None

\* parse_csv_judges: the reader yields a row of S
ReadCsvRow(S) ==
    /\ pc = "parse_csv"
    /\ n_read < MaxCsvRows
    /\ \E r \in S :
        /\ row' = <<r>>
        /\ csv_judges' = csv_judges \o CsvJudgesOf[r]
    /\ n_read' = n_read + 1
    /\ UNCHANGED <<pc, mag_judges, unique_judges, courts_map, attorneys, sql, db, arg, ret>>

\* parse_json_magistrates: the next entry of data, one of S
ReadJsonEntry(S) ==
    /\ pc = "parse_json"
    /\ n_read < MaxJsonEntries
    /\ \E e \in S :
        /\ row' = <<e>>
        /\ mag_judges' = mag_judges \o JsonJudgesOf[e]
    /\ n_read' = n_read + 1
    /\ UNCHANGED <<pc, csv_judges, unique_judges, courts_map, attorneys, sql, db, arg, ret>>

\* the running parser returns to `at`
ParserReturn(from, at) ==
    /\ pc = from
    /\ pc' = at
    /\ row' = <<>>
    /\ n_read' = 0
    /\ UNCHANGED <<csv_judges, mag_judges, unique_judges, courts_map, attorneys, sql, db, arg, ret>>

ParseCsvRow == ReadCsvRow(CsvFileRows)

CsvReturn == ParserReturn("parse_csv", "parse_json")

ParseJsonEntry == ReadJsonEntry(JsonFileEntries)

JsonReturn == ParserReturn("parse_json", "dedup")

\* all_judges = csv_judges + mag_judges, then the deduplication loop
Deduplicate ==
    /\ pc = "dedup"
    /\ unique_judges' = deduplicate(csv_judges \o mag_judges)
    /\ pc' = "courts"
    /\ UNCHANGED <<row, n_read, csv_judges, mag_judges, courts_map, attorneys, sql, db, arg, ret>>

BuildCourtsMap ==
    /\ pc = "courts"
    /\ courts_map' = build_courts_map(unique_judges)
    /\ pc' = "attorneys"
    /\ UNCHANGED <<row, n_read, csv_judges, mag_judges, unique_judges, attorneys, sql, db, arg, ret>>

GenerateAttorneys ==
    /\ pc = "attorneys"
    /\ attorneys' = generate_attorneys(DOMAIN courts_map)
    /\ pc' = "sql"
    /\ UNCHANGED <<row, n_read, csv_judges, mag_judges, unique_judges, courts_map, sql, db, arg, ret>>

\* generate_sql and the write of the output file
GenerateSql ==
    /\ pc = "sql"
    /\ sql' = generate_sql(unique_judges, attorneys, courts_map)
    /\ pc' = "written"
    /\ UNCHANGED <<row, n_read, csv_judges, mag_judges, unique_judges, courts_map, attorneys, db, arg, ret>>

\* the migration meets a target database
ConnectTarget ==
    /\ pc = "written"
    /\ \E t \in Targets : db' = t
    /\ pc' = "connected"
    /\ UNCHANGED <<row, n_read, csv_judges, mag_judges, unique_judges, courts_map, attorneys, sql, arg, ret>>

\* the DO block runs
ExecuteBlock ==
    /\ pc = "connected"
    /\ db' = run_block(sql, db)
    /\ pc' = "applied"
    /\ UNCHANGED <<row, n_read, csv_judges, mag_judges, unique_judges, courts_map, attorneys, sql, arg, ret>>

Next ==
    \/ ParseCsvRow
    \/ CsvReturn
    \/ ParseJsonEntry
    \/ JsonReturn
    \/ Deduplicate
    \/ BuildCourtsMap
    \/ GenerateAttorneys
    \/ GenerateSql
    \/ ConnectTarget
    \/ ExecuteBlock

Spec == Init /\ [][Next]_vars

-----------------------------------------------------------------------------
(* The two parsers, each called on its own over the full input sets *)

InitParse == (Start("parse_csv") \/ Start("parse_json")) /\ arg = None

CsvParserRow == ReadCsvRow(CsvRows)

CsvParserReturn == ParserReturn("parse_csv", "returned")

JsonParserEntry == ReadJsonEntry(JsonEntries)

JsonParserReturn == ParserReturn("parse_json", "returned")

NextParse ==
    \/ CsvParserRow
    \/ CsvParserReturn
    \/ JsonParserEntry
    \/ JsonParserReturn

SpecParse == InitParse /\ [][NextParse]_vars

-----------------------------------------------------------------------------
(* court_name_to_id called on its own *)

Prefixes ==
    {"", "U.S. District Court for the ", "U.S. District Court - ", "U.S. Bankruptcy Court - "}

Regions ==
    {"California", "Vermont", "New York", "West Virginia", "Virginia", "Arkansas",
     "Kansas", "Columbia", "Guam", "the Northern Mariana Islands", "Atlantis"}

CourtNameInputs ==
    {p \o "District of " \o r : p \in Prefixes, r \in Regions}
    \cup {p \o DIRECTION_ABBREVS[d][1] \o " District of " \o r :
            p \in Prefixes, d \in 1..Len(DIRECTION_ABBREVS), r \in Regions}
    \cup {"", None, "Some Unrelated Institution", "George Washington University",
          "U.S. District Court for the Northern District of California",
          "District of Vermont",
          "Western District, Northern Division of Texas",
          "Eastern Virginia, Western Division",
          "Middle District of Central Florida",
          "U.S. District Court for the Southern District of Northern Mariana Islands"}

InitResolve == Start("call_court_name_to_id") /\ arg \in CourtNameInputs

CourtNameToIdCall ==
    /\ pc = "call_court_name_to_id"
    /\ ret' = court_name_to_id(arg)
    /\ pc' = "returned"
    /\ UNCHANGED <<row, n_read, csv_judges, mag_judges, unique_judges, courts_map, attorneys, sql, db, arg>>

NextResolve == CourtNameToIdCall

SpecResolve == InitResolve /\ [][NextResolve]_vars

-----------------------------------------------------------------------------
(* generate_attorneys called on its own *)

\* the court ids of the regions a..b of the table
CourtIdWindow(a, b) == {STATE_ABBREVS[k][2] \o "d" : k \in a..b}

CourtIdSets == {{}} \cup {CourtIdWindow(a, b) : a \in 1..MaxCourts, b \in 1..MaxCourts}

InitAttorneys == Start("call_generate_attorneys") /\ arg \in CourtIdSets

GenerateAttorneysCall ==
    /\ pc = "call_generate_attorneys"
    /\ ret' = generate_attorneys(arg)
    /\ pc' = "returned"
    /\ UNCHANGED <<row, n_read, csv_judges, mag_judges, unique_judges, courts_map, attorneys, sql, db, arg>>

NextAttorneys == GenerateAttorneysCall

SpecAttorneys == InitAttorneys /\ [][NextAttorneys]_vars

-----------------------------------------------------------------------------
(* Properties *)

Last(q) == q[Len(q)]

\* the k-th smallest (k from 1) element of a set of integers
NthOf(S, k) == CHOOSE x \in S : Cardinality({y \in S : y < x}) = k - 1

AfterDedup == pc \in {"courts", "attorneys", "sql", "written", "connected", "applied"}

AfterCourts == pc \in {"attorneys", "sql", "written", "connected", "applied"}

KeyOf(j) == <<Lower(j.name), j.court_id>>

IsTabular(j) == SubSeq(j.seed_key, 1, 4) = "csv-"

\* C1: when the deduplication loop has ended, no two records of
\* unique_judges share the key (lowercased name, court_id); unique_judges
\* holds exactly the first record of every key of csv_judges + mag_judges,
\* in their original order; and a key carried by a tabular record is
\* survived by a tabular record.
C1_DedupFirstOccurrence ==
    pc = "courts" =>
        LET all == csv_judges \o mag_judges
            firsts == {i \in 1..Len(all) : \A j \in 1..(i - 1) : KeyOf(all[j]) # KeyOf(all[i])}
        IN  /\ \A a, b \in 1..Len(unique_judges) :
                   a # b => KeyOf(unique_judges[a]) # KeyOf(unique_judges[b])
            /\ Len(unique_judges) = Cardinality(firsts)
            /\ \A k \in 1..Len(unique_judges) : unique_judges[k] = all[NthOf(firsts, k)]
            /\ \A k \in 1..Len(unique_judges) :
                   (\E i \in 1..Len(csv_judges) : KeyOf(csv_judges[i]) = KeyOf(unique_judges[k]))
                   => /\ IsTabular(unique_judges[k])
                      /\ \E i \in 1..Len(csv_judges) : csv_judges[i] = unique_judges[k]

\* a tabular and a hierarchical record with one key and different fields met,
\* and one record was discarded
C1_Witness ==
    /\ pc = "courts"
    /\ Len(csv_judges) >= 1
    /\ Len(mag_judges) >= 1
    /\ KeyOf(csv_judges[1]) = KeyOf(mag_judges[1])
    /\ csv_judges[1].title # mag_judges[1].title
    /\ Len(unique_judges) < Len(csv_judges) + Len(mag_judges)
    /\ IsTabular(unique_judges[1])

CsvRowRead == pc = "parse_csv" /\ n_read > 0

JsonEntryRead == pc = "parse_json" /\ n_read > 0

Blank(v) == Strip(OrEmpty(v)) = ""

\* the three admission tests of the tabular source
RowAdmitted(r) ==
    /\ Blank(r.death_year)
    /\ Strip(OrEmpty(r.court_type)) = "U.S. District Court"
    /\ court_name_to_id(Strip(OrEmpty(r.court_name))) # None

\* C2: the record of an admitted tabular row has status Retired when the
\* trimmed termination is exactly "Retirement", else Senior when the trimmed
\* senior-status date is non-empty, else Active; termination "Retirement"
\* with a senior-status date gives Retired.
C2_StatusResolution ==
    (CsvRowRead /\ RowAdmitted(row[1])) =>
        /\ csv_judges # <<>>
        /\ Last(csv_judges).status =
               IF Strip(OrEmpty(row[1].termination)) = "Retirement" THEN "Retired"
               ELSE IF ~Blank(row[1].senior_date) THEN "Senior"
               ELSE "Active"
        /\ (Strip(OrEmpty(row[1].termination)) = "Retirement" /\ ~Blank(row[1].senior_date))
               => Last(csv_judges).status = "Retired"

\* an admitted row with termination "Retirement" and a senior-status date
C2_Witness ==
    /\ CsvRowRead
    /\ RowAdmitted(row[1])
    /\ row[1].termination = "Retirement"
    /\ row[1].senior_date = "2010-01-01"
    /\ Last(csv_judges).status = "Retired"

\* C3: the guard is the first statement of the emitted block and every other
\* statement is an insert after it; and when the block runs against a target
\* whose judges table holds more than 10 rows, the target is left as it was:
\* no row is inserted into courts, judges or attorneys.
C3_GuardSkipsBlock ==
    /\ [](sql # <<>> =>
            /\ sql[1].kind = "guard"
            /\ \A i \in 2..Len(sql) : sql[i].kind = "insert")
    /\ [][(pc = "connected" /\ db.judges > 10) => db' = db]_vars

\* the block was run against a target holding more than 10 judges, and it
\* carried a court the target lacks, a judge and the attorneys
C3_Witness ==
    /\ pc = "applied"
    /\ db.judges = 11
    /\ db.attorneys = 50
    /\ db.courts = {"'cand'"}
    /\ "vtd" \in DOMAIN courts_map
    /\ \E i \in 1..Len(sql) : sql[i].table = "judges" /\ sql[i].kind = "insert"
    /\ \E i \in 1..Len(sql) : sql[i].table = "attorneys"

JudgeInserts == SelectSeq(sql, LAMBDA st : st.kind = "insert" /\ st.table = "judges")

\* C4: no two judge inserts of the emitted block carry the same id: no two
\* records of unique_judges share a seed_key.
C4_JudgeIdsUnique ==
    /\ AfterDedup =>
          \A a, b \in 1..Len(unique_judges) :
              a # b => unique_judges[a].seed_key # unique_judges[b].seed_key
    /\ \A a, b \in 1..Len(JudgeInserts) :
          a # b => JudgeInserts[a].values[1] # JudgeInserts[b].values[1]

CourtInserts == SelectSeq(sql, LAMBDA st : st.kind = "insert" /\ st.table = "courts")

\* C5: once the registry is built, its court ids are exactly the court ids
\* of the records of unique_judges, and the court inserts of the emitted
\* block are exactly the courts of the registry.
C5_CourtRegistry ==
    /\ AfterCourts =>
          DOMAIN courts_map = {unique_judges[k].court_id : k \in 1..Len(unique_judges)}
    /\ pc = "written" =>
          {CourtInserts[k].values[1] : k \in 1..Len(CourtInserts)}
              = {sql_str(c) : c \in DOMAIN courts_map}

\* two courts are registered while the Vermont court of a deceased judge's
\* row is not, and a duplicate record was discarded
C5_Witness ==
    /\ pc = "attorneys"
    /\ DOMAIN courts_map = {"cand", "nyed"}
    /\ Len(csv_judges) = 2
    /\ Len(unique_judges) = 2
    /\ Len(mag_judges) = 1

\* the element of the set S of strings that has exactly k elements of S below it
Ranked(S, k) == CHOOSE x \in S : Cardinality({y \in S : StrLess(y, x)}) = k

\* C6: generate_attorneys(courts) gives the attorney of 0-based index i the
\* court sorted(courts)[i mod min(N, 20)] when N >= 1, and the court
\* ["nysd", "cacd", "ilnd"][i mod 3] when N = 0 (N the number of courts).
C6_AttorneyCourt ==
    pc = "returned" =>
        LET N == Cardinality(arg)
            m == IF N < 20 THEN N ELSE 20
            smallest == [k \in 0..(m - 1) |-> Ranked(arg, k)]
        IN  /\ Len(ret) = 50
            /\ \A i \in 0..49 :
                   ret[i + 1].court_id =
                       IF N >= 1 THEN smallest[i % m]
                       ELSE <<"nysd", "cacd", "ilnd">>[(i % 3) + 1]

\* more than 20 courts: the attorney of index 20 is back at the first court
C6_Witness ==
    /\ pc = "returned"
    /\ Cardinality(arg) > 20
    /\ ret[21].court_id = ret[1].court_id
    /\ ret[20].court_id # ret[1].court_id

\* C7, as claimed: a tabular record with status Active comes from a row
\* whose termination field and senior-status date field are both empty.
C7_ActiveMeansNoTermination ==
    (CsvRowRead /\ RowAdmitted(row[1]) /\ csv_judges # <<>> /\ Last(csv_judges).status = "Active") =>
        /\ Blank(row[1].termination)
        /\ Blank(row[1].senior_date)

\* C7, amended: a tabular record with status Active comes from a row whose
\* trimmed termination is not "Retirement" and whose senior-status date is
\* empty.
C7_ActiveMeansNotRetiredNotSenior ==
    (CsvRowRead /\ RowAdmitted(row[1]) /\ csv_judges # <<>> /\ Last(csv_judges).status = "Active") =>
        /\ Strip(OrEmpty(row[1].termination)) # "Retirement"
        /\ Blank(row[1].senior_date)

\* an admitted row with a recorded termination that is not a retirement
C7_Witness ==
    /\ CsvRowRead
    /\ RowAdmitted(row[1])
    /\ row[1].termination = "Resignation"
    /\ Blank(row[1].senior_date)
    /\ Last(csv_judges).status = "Active"

DirectionNames == <<"Northern", "Southern", "Eastern", "Western", "Central", "Middle">>

DirectionLetters == <<"n", "s", "e", "w", "c", "m">>

\* what the claim gives for a name: None, or region + direction + "d"
Resolved(name) ==
    IF name = None \/ name = "" THEN None
    ELSE LET stripped == StripPhrases(name)
             dirs == {i \in 1..6 : Contains(stripped, DirectionNames[i])}
             d == IF dirs = {} THEN 0 ELSE Min(dirs)
             direction == IF d = 0 THEN "" ELSE DirectionLetters[d]
             remaining ==
                 IF d = 0 THEN stripped
                 ELSE Replace(Replace(stripped, DirectionNames[d] \o " District of ", ""),
                              DirectionNames[d] \o " ", "")
             regions == {i \in 1..Len(STATE_ABBREVS) : Contains(remaining, STATE_ABBREVS[i][1])}
         IN  IF regions = {} THEN None
             ELSE STATE_ABBREVS[Min(regions)][2] \o direction \o "d"

\* C8: court_name_to_id(name) is None for an empty name; otherwise, on the
\* name with the fixed phrases stripped, the direction letter is that of the
\* first qualifier in table order occurring as a substring ("" if none), the
\* region code that of the first region in table order occurring in the text
\* left once the direction fragments are removed, and the result is
\* region + direction + "d", or None when no region occurs.  The three
\* documented names give "cand", "vtd" and None.
C8_CourtIdResolution ==
    pc = "returned" =>
        /\ ret = Resolved(arg)
        /\ arg = "U.S. District Court for the Northern District of California" => ret = "cand"
        /\ arg = "District of Vermont" => ret = "vtd"
        /\ arg = "Some Unrelated Institution" => ret = None

\* a name in which two qualifiers occur, the later in table order first in
\* the text, and a region name that contains another
C8_Witness ==
    /\ pc = "returned"
    /\ \/ arg = "Western District, Northern Division of Texas" /\ ret = "txnd"
       \/ arg = "U.S. District Court for the Southern District of West Virginia" /\ ret = "vasd"

\* index of the position the claim selects from a position list, 0 for none
Selected(positions) ==
    LET open == {i \in 1..Len(positions) : Blank(positions[i].date_end)}
        magistrate == {i \in open : Contains(Strip(OrEmpty(positions[i].title)), "Magistrate")}
        other == {i \in open : ~Contains(Strip(OrEmpty(positions[i].title)), "Bankruptcy")}
    IN  IF magistrate # {} THEN Min(magistrate)
        ELSE IF other # {} THEN Min(other)
        ELSE 0

\* C9: reading an entry without a death date appends one record exactly when
\* a position is selected (the first open one whose title contains
\* "Magistrate", else the first open one whose title does not contain
\* "Bankruptcy") and its institution resolves to a court id; the record
\* carries that position's court, title and start date, status Active and no
\* senior-status date.  Otherwise the entry appends nothing.
C9_PositionSelection ==
    [][(pc = "parse_json" /\ n_read' = n_read + 1 /\ Blank(row'[1].death_date)) =>
          LET c == Selected(row'[1].positions)
              court == IF c = 0 THEN None
                       ELSE court_name_to_id(Strip(OrEmpty(row'[1].positions[c].institution)))
          IN  IF court # None
              THEN /\ Len(mag_judges') = Len(mag_judges) + 1
                   /\ SubSeq(mag_judges', 1, Len(mag_judges)) = mag_judges
                   /\ Last(mag_judges').court_id = court
                   /\ Last(mag_judges').title = map_title(row'[1].positions[c].title)
                   /\ Last(mag_judges').appointed_date = parse_date(row'[1].positions[c].date_start)
                   /\ Last(mag_judges').status = "Active"
                   /\ Last(mag_judges').senior_status_date = None
              ELSE mag_judges' = mag_judges]_vars

\* an entry whose first open position is a district judgeship and whose
\* second is the open magistrate position: the record is the magistrate's
C9_Witness ==
    /\ JsonEntryRead
    /\ Blank(row[1].death_date)
    /\ Len(row[1].positions) = 2
    /\ row[1].positions[1].title = "Judge"
    /\ Blank(row[1].positions[1].date_end)
    /\ row[1].positions[2].title = "Magistrate Judge"
    /\ Blank(row[1].positions[2].date_end)
    /\ mag_judges # <<>>
    /\ Last(mag_judges).court_id = "cand"
    /\ Last(mag_judges).title = "Magistrate Judge"

\* C10: reading a tabular row whose death-year field is populated, or a
\* hierarchical entry whose death_date is populated, appends no record to
\* the normalized output, whatever its other fields are.
C10_DeceasedExcluded ==
    /\ [][(pc = "parse_csv" /\ n_read' = n_read + 1 /\ ~Blank(row'[1].death_year))
             => csv_judges' = csv_judges]_vars
    /\ [][(pc = "parse_json" /\ n_read' = n_read + 1 /\ ~Blank(row'[1].death_date))
             => mag_judges' = mag_judges]_vars

\* a deceased judge's row that passes every other admission test was read
\* after a row that gave a record, and gave none
C10_Witness ==
    /\ CsvRowRead
    /\ n_read = 2
    /\ ~Blank(row[1].death_year)
    /\ Strip(OrEmpty(row[1].court_type)) = "U.S. District Court"
    /\ court_name_to_id(Strip(OrEmpty(row[1].court_name))) # None
    /\ Len(csv_judges) = 1

\* the ordered rules on the raw appointment title
RuleTitle(raw) ==
    IF Contains(raw, "Chief") THEN "Chief Judge"
    ELSE IF Contains(raw, "Magistrate") THEN "Magistrate Judge"
    ELSE IF Contains(raw, "Senior") THEN "Senior Judge"
    ELSE "Judge"

\* the row shows a chief-judge service start with no recorded end
ServingAsChief(r) == ~Blank(r.chief_begin) /\ Blank(r.chief_end)

\* C11: the record of an admitted tabular row has title "Chief Judge" when
\* the chief-judge service begin field is non-empty and the end field is
\* empty, whatever the raw appointment title says; otherwise its title is the
\* first match of: raw title contains "Chief" gives "Chief Judge", contains
\* "Magistrate" gives "Magistrate Judge", contains "Senior" gives
\* "Senior Judge", else "Judge".
C11_TitleResolution ==
    (CsvRowRead /\ RowAdmitted(row[1])) =>
        /\ csv_judges # <<>>
        /\ Last(csv_judges).title =
               IF ServingAsChief(row[1]) THEN "Chief Judge"
               ELSE RuleTitle(OrEmpty(row[1].appt_title))
        /\ (ServingAsChief(row[1]) /\ row[1].appt_title = "Judge")
               => Last(csv_judges).title = "Chief Judge"

\* an admitted row whose raw title is "Judge", with a chief-judge service
\* start and no end, was read and its record is a Chief Judge
C11_Witness ==
    /\ CsvRowRead
    /\ RowAdmitted(row[1])
    /\ row[1].appt_title = "Judge"
    /\ row[1].chief_begin = "2015"
    /\ row[1].chief_end = ""
    /\ Last(csv_judges).title = "Chief Judge"

\* the i-th statement of the block inserts a row that names a court
ReferencesCourt(i) ==
    sql[i].kind = "insert" /\ sql[i].table \in {"judges", "attorneys"}

\* C12: in the emitted block, the court_id of every judge insert and of every
\* attorney insert is the id of a court insert that stands earlier in the
\* same block, also when no judge survives and the registry is empty.
C12_ReferencesResolved ==
    \A i \in 1..Len(sql) :
        ReferencesCourt(i) =>
            \E k \in 1..(i - 1) :
                /\ sql[k].kind = "insert"
                /\ sql[k].table = "courts"
                /\ sql[k].values[1] = sql[i].values[2]

====
